---- MODULE Spec2Model ----
(***************************************************************************)
(* Server Script lifecycle and dispatch                                    *)
(* (frappe/core/doctype/server_script/server_script.py).                   *)
(*                                                                         *)
(* The document store holds two tables: Server Script documents (scripts)  *)
(* and Scheduled Job Type documents (jobs).  A request is one call of a    *)
(* handler: a save, a delete, a direct call of the whitelisted             *)
(* setup_scheduler_events, or one of the four execution entry points.      *)
(* Two saves of one script running side by side are followed one document  *)
(* store call at a time (running).                                         *)
(* Python strings that the code takes apart (names, frequencies, methods)  *)
(* are sequences of one-character strings, so that frappe.scrub can be     *)
(* computed character by character.                                        *)
(***************************************************************************)
EXTENDS Integers, Sequences, FiniteSets, TLC

VARIABLES
    scripts,            \* Server Script table: name -> document
    jobs,               \* Scheduled Job Type table: name -> document
    server_script_map,  \* cache key "server_script_map": << >> when unset, else <<the map>>
    request,            \* the most recent request and what it did
    nreq,               \* number of requests handled so far
    running             \* saves in progress, store call by store call

vars == <<scripts, jobs, server_script_map, request, nreq, running>>

-----------------------------------------------------------------------------
(* Bounds and input domains *)

\* Requests in one behaviour.
MaxRequests == 4

\* Two script names that differ only in a character frappe.scrub rewrites.
ScriptNames == { <<"a", " ", "b">>, <<"a", "-", "b">> }

Daily == <<"D", "a", "i", "l", "y">>
Weekly == <<"W", "e", "e", "k", "l", "y">>
NotSet == <<>>

\* Values of the event_frequency field: unset, or a scheduler cadence.
Frequencies == {Daily, Weekly}
EventFrequencies == {NotSet} \cup Frequencies

ScriptTypes == {"DocType Event", "Scheduler Event", "Permission Query", "API"}

\* Session users; only Administrator holds the Script Manager role.
Users == {"Administrator", "Guest"}

Roles(user) == IF user = "Administrator" THEN {"Script Manager"} ELSE {}

\* Script bodies.  The last one is not Python.
ParsableScripts ==
    { "pass",
      "conditions = '1=1'",
      "conditions = ''",
      "conditions = None",
      "frappe.flags.out = 1",
      "raise Exception" }
UnparsableScripts == { "def (" }
Scripts == ParsableScripts \cup UnparsableScripts

\* Script bodies offered to a save.
SaveScripts == { "pass", "def (" }

\* Checkbox values (Check fields are stored as 0 or 1).
Check == {0, 1}

ScriptDocs ==
    [ script_type : ScriptTypes,
      disabled : Check,
      allow_guest : Check,
      event_frequency : EventFrequencies,
      script : Scripts ]

-----------------------------------------------------------------------------
(* Python and framework helpers *)

\* bool(x) of a Check value.
Bool(x) == x # 0

\* str.lower() on the letters the model uses.
Lower(c) ==
    CASE c = "D" -> "d"
      [] c = "W" -> "w"
      [] OTHER -> c

\* frappe.scrub: txt.replace(" ", "_").replace("-", "_").lower()
scrub(txt) ==
    [ i \in 1..Len(txt) |->
        IF txt[i] = " " \/ txt[i] = "-" THEN "_" ELSE Lower(txt[i]) ]

\* ast.parse(script) succeeds.
Parses(script) == script \in ParsableScripts

\* frappe.only_for(role): the session user holds the role.
only_for(user, role) == role \in Roles(user)

\* Document.get_doc_before_save(): the stored document, if any.
doc_before_save(name) ==
    IF name \in DOMAIN scripts THEN <<scripts[name]>> ELSE <<>>

\* Document.has_value_changed(fieldname): true for a new document.
has_value_changed(doc, before, fieldname) ==
    IF before = <<>> THEN TRUE ELSE before[1][fieldname] # doc[fieldname]

\* n copies of x.
Repeat(x, n) == [ i \in 1..n |-> x ]

\* The name a new Scheduled Job Type document gets: the first unused one.
NewJobName(J) == CHOOSE k \in 1..(Cardinality(DOMAIN J) + 1) : k \notin DOMAIN J

\* Document store: delete the named documents / insert one / update some.
DeleteDocs(J, names) == [ k \in DOMAIN J \ names |-> J[k] ]

InsertDoc(J, doc) ==
    LET new == NewJobName(J)
    IN  [ k \in DOMAIN J \cup {new} |-> IF k = new THEN doc ELSE J[k] ]

\* What a handler has done so far: the job table as it left it, the document
\* store calls it made on that table, the messages it printed, and the
\* exception that ended it ("None" while it is still running).
Ctx(J) == [ jobs |-> J, log |-> <<>>, msgs |-> <<>>, error |-> "None" ]

Raise(c, exception) == [ c EXCEPT !.error = exception ]

-----------------------------------------------------------------------------
(* ServerScript: the save and delete lifecycle *)

\* ServerScript.scheduled_jobs: names of the jobs whose server_script is name.
scheduled_jobs(name, J) == { k \in DOMAIN J : J[k].server_script = name }

\* ServerScript.validate_script: ast.parse raises on a syntax error.
validate_script(doc, c) ==
    IF Parses(doc.script) THEN c ELSE Raise(c, "SyntaxError")

\* ServerScript.sync_scheduled_jobs
sync_scheduled_jobs(name, doc, before, c) ==
    IF doc.script_type # "Scheduler Event"
         \/ ~has_value_changed(doc, before, "disabled")
    THEN c
    ELSE LET differ == { k \in scheduled_jobs(name, c.jobs) :
                            Bool(c.jobs[k].stopped) # Bool(doc.disabled) }
         IN  [ c EXCEPT
                 !.jobs = [ k \in DOMAIN c.jobs |->
                              IF k \in differ
                              THEN [ c.jobs[k] EXCEPT !.stopped = doc.disabled ]
                              ELSE c.jobs[k] ],
                 !.log = c.log \o <<"get_all">>
                               \o Repeat("save", Cardinality(differ)) ]

\* clear_scheduled_events without the script type condition.
clear_scheduled_events_any_type(name, doc, before, c) ==
    IF has_value_changed(doc, before, "event_frequency")
    THEN LET owned == scheduled_jobs(name, c.jobs)
         IN  [ c EXCEPT
                 !.jobs = DeleteDocs(c.jobs, owned),
                 !.log = c.log \o <<"get_all">>
                               \o Repeat("delete_doc", Cardinality(owned)) ]
    ELSE c

\* ServerScript.clear_scheduled_events
clear_scheduled_events(name, doc, before, c) ==
    IF doc.script_type = "Scheduler Event"
         /\ has_value_changed(doc, before, "event_frequency")
    THEN LET owned == scheduled_jobs(name, c.jobs)
         IN  [ c EXCEPT
                 !.jobs = DeleteDocs(c.jobs, owned),
                 !.log = c.log \o <<"get_all">>
                               \o Repeat("delete_doc", Cardinality(owned)) ]
    ELSE c

\* validate with the syntax check moved behind the job reconciliation.
validate_syntax_checked_last(user, name, doc, before, c) ==
    IF ~only_for(user, "Script Manager") THEN Raise(c, "PermissionError")
    ELSE validate_script(doc,
             clear_scheduled_events(name, doc, before,
                 sync_scheduled_jobs(name, doc, before, c)))

\* validate without the role check.
validate_without_only_for(user, name, doc, before, c) ==
    LET c1 == validate_script(doc, c)
    IN  IF c1.error # "None" THEN c1
        ELSE clear_scheduled_events(name, doc, before,
                 sync_scheduled_jobs(name, doc, before, c1))

\* ServerScript.validate
validate(user, name, doc, before, c) ==
    IF ~only_for(user, "Script Manager") THEN Raise(c, "PermissionError")
    ELSE LET c1 == validate_script(doc, c)
         IN  IF c1.error # "None" THEN c1
             ELSE clear_scheduled_events(name, doc, before,
                      sync_scheduled_jobs(name, doc, before, c1))

\* setup_scheduler_events without the early return on an unchanged frequency.
setup_scheduler_events_always_saves(script_name, frequency, c) ==
    LET method == scrub(script_name \o <<"-">> \o frequency)
        found == { k \in DOMAIN c.jobs : c.jobs[k].method = method }
        read == c.log \o <<"get_value">>
    IN  IF found = {}
        THEN { [ c EXCEPT
                   !.jobs = InsertDoc(c.jobs,
                                [ method |-> method,
                                  frequency |-> frequency,
                                  server_script |-> script_name,
                                  stopped |-> 0 ]),
                   !.log = read \o <<"insert">>,
                   !.msgs = c.msgs \o <<"Enabled scheduled execution for script {0}">> ] }
        ELSE { [ c EXCEPT
                   !.jobs = [ c.jobs EXCEPT ![k].frequency = frequency ],
                   !.log = read \o <<"get_doc", "save">>,
                   !.msgs = c.msgs \o
                       <<"Scheduled execution for script {0} has updated">> ]
               : k \in found }

\* setup_scheduler_events: the set of contexts it can end in, one for each
\* document frappe.db.get_value may return when several have the method.
setup_scheduler_events(script_name, frequency, c) ==
    LET method == scrub(script_name \o <<"-">> \o frequency)
        found == { k \in DOMAIN c.jobs : c.jobs[k].method = method }
        read == c.log \o <<"get_value">>
    IN  IF found = {}
        THEN { [ c EXCEPT
                   !.jobs = InsertDoc(c.jobs,
                                [ method |-> method,
                                  frequency |-> frequency,
                                  server_script |-> script_name,
                                  stopped |-> 0 ]),
                   !.log = read \o <<"insert">>,
                   !.msgs = c.msgs \o <<"Enabled scheduled execution for script {0}">> ] }
        ELSE { IF c.jobs[k].frequency = frequency
               THEN [ c EXCEPT !.log = read \o <<"get_doc">> ]
               ELSE [ c EXCEPT
                        !.jobs = [ c.jobs EXCEPT ![k].frequency = frequency ],
                        !.log = read \o <<"get_doc", "save">>,
                        !.msgs = c.msgs \o
                            <<"Scheduled execution for script {0} has updated">> ]
               : k \in found }

\* sync_scheduler_events that does not look at the disabled field.
sync_scheduler_events_also_disabled(name, doc, c) ==
    IF doc.event_frequency # NotSet
         /\ doc.script_type = "Scheduler Event"
    THEN setup_scheduler_events(name, doc.event_frequency, c)
    ELSE {c}

\* ServerScript.sync_scheduler_events
sync_scheduler_events(name, doc, c) ==
    IF ~Bool(doc.disabled)
         /\ doc.event_frequency # NotSet
         /\ doc.script_type = "Scheduler Event"
    THEN setup_scheduler_events(name, doc.event_frequency, c)
    ELSE {c}

\* ServerScript.on_update (the cache key is deleted by the Save action).
on_update(name, doc, c) == sync_scheduler_events(name, doc, c)

\* on_trash that deletes one job of the script instead of all of them.
on_trash_first_job_only(name, doc, c) ==
    IF doc.script_type = "Scheduler Event"
    THEN LET owned == scheduled_jobs(name, c.jobs)
             first == IF owned = {} THEN {} ELSE { CHOOSE k \in owned : TRUE }
         IN  [ c EXCEPT
                 !.jobs = DeleteDocs(c.jobs, first),
                 !.log = c.log \o <<"get_all">>
                               \o Repeat("delete_doc", Cardinality(first)) ]
    ELSE c

\* ServerScript.on_trash
on_trash(name, doc, c) ==
    IF doc.script_type = "Scheduler Event"
    THEN LET owned == scheduled_jobs(name, c.jobs)
         IN  [ c EXCEPT
                 !.jobs = DeleteDocs(c.jobs, owned),
                 !.log = c.log \o <<"get_all">>
                               \o Repeat("delete_doc", Cardinality(owned)) ]
    ELSE c

\* The record of a request.  ret is <<>> for None, else <<value>>; exec lists
\* the calls of safe_exec the request made.
Request(op, user, name, arg, c, ret, exec) ==
    [ op |-> op, user |-> user, name |-> name, arg |-> arg,
      error |-> c.error, log |-> c.log, msgs |-> c.msgs,
      ret |-> ret, exec |-> exec ]

PutScript(name, doc) ==
    [ n \in DOMAIN scripts \cup {name} |-> IF n = name THEN doc ELSE scripts[n] ]

\* Document.save / Document.insert of a Server Script: validate, write the
\* document, on_update.  An exception ends the request and its transaction is
\* rolled back, so neither table changes.
Save(user, name, doc) ==
    /\ nreq < MaxRequests
    /\ UNCHANGED running
    /\ nreq' = nreq + 1
    /\ LET before == doc_before_save(name)
           v == validate(user, name, doc, before, Ctx(jobs))
       IN  IF v.error # "None"
           THEN /\ request' = Request("save", user, name, doc.script, v, <<>>, <<>>)
                /\ UNCHANGED <<scripts, jobs, server_script_map>>
           ELSE \E u \in on_update(name, doc, v) :
                /\ scripts' = PutScript(name, doc)
                /\ jobs' = u.jobs
                /\ server_script_map' = <<>>
                /\ request' = Request("save", user, name, doc.script, u, <<>>, <<>>)

\* The permission check frappe.delete_doc makes before on_trash: deleting a
\* Server Script takes the Script Manager role.
has_delete_permission(user) == "Script Manager" \in Roles(user)

\* frappe.delete_doc("Server Script", name): the permission check, on_trash,
\* then the row is removed.
Delete(user, name) ==
    /\ nreq < MaxRequests
    /\ UNCHANGED running
    /\ nreq' = nreq + 1
    /\ name \in DOMAIN scripts
    /\ IF ~has_delete_permission(user)
       THEN /\ request' = Request("delete", user, name, "",
                                  Raise(Ctx(jobs), "PermissionError"), <<>>, <<>>)
            /\ UNCHANGED <<scripts, jobs>>
       ELSE LET t == on_trash(name, scripts[name], Ctx(jobs))
            IN  /\ scripts' = [ n \in DOMAIN scripts \ {name} |-> scripts[n] ]
                /\ jobs' = t.jobs
                /\ request' = Request("delete", user, name, "", t, <<>>, <<>>)
    /\ UNCHANGED server_script_map

\* frappe.whitelist() endpoint setup_scheduler_events, called directly by a
\* logged-in user with arguments of the caller's choosing.
SetupSchedulerEvents(user, script_name, frequency) ==
    /\ nreq < MaxRequests
    /\ UNCHANGED running
    /\ nreq' = nreq + 1
    /\ user # "Guest"
    /\ \E u \in setup_scheduler_events(script_name, frequency, Ctx(jobs)) :
         /\ jobs' = u.jobs
         /\ request' = Request("setup", user, script_name, frequency, u, <<>>, <<>>)
    /\ UNCHANGED <<scripts, server_script_map>>

-----------------------------------------------------------------------------
(* ServerScript: the execution entry points *)

\* Values the local conditions holds are strings; PyNone stands for Python's
\* None, which equals no string.
PyNone == "None"

\* bool(value) of what conditions holds: the empty string and None are falsy.
Truthy(value) == value \notin {"", PyNone}

\* A Python dict with one more key set.
SetItem(dict, key, value) ==
    [ k \in DOMAIN dict \cup {key} |-> IF k = key THEN value ELSE dict[k] ]

\* frappe.utils.safe_exec.safe_exec(script, _globals, _locals): runs the script
\* in the restricted namespace and returns the globals' frappe.flags and the
\* locals as the script left them; an exception in the script reaches the
\* caller as an ExecutionError.  _globals and _locals are <<>> for None, else
\* <<dict>>.
safe_exec(script, _globals, _locals) ==
    LET call == [ script |-> script, _globals |-> _globals, _locals |-> _locals ]
        locals == IF _locals = <<>> THEN <<>> ELSE _locals[1]
        done(flags, l) ==
            [ error |-> "None", flags |-> flags, locals |-> l, call |-> call ]
    IN  CASE script = "raise Exception" ->
               [ error |-> "ExecutionError", flags |-> {}, locals |-> locals,
                 call |-> call ]
          [] script = "conditions = '1=1'" ->
               done({}, SetItem(locals, "conditions", "1=1"))
          [] script = "conditions = ''" ->
               done({}, SetItem(locals, "conditions", ""))
          [] script = "conditions = None" ->
               done({}, SetItem(locals, "conditions", PyNone))
          [] script = "frappe.flags.out = 1" -> done({"out"}, locals)
          [] OTHER -> done({}, locals)

\* What an entry point did: the exception it raised ("None" if it returned),
\* what it returned, and its calls of safe_exec.
Outcome(error, ret, exec) == [ error |-> error, ret |-> ret, exec |-> exec ]

\* execute_method without the guest check.
execute_method_no_guest_check(self, user) ==
    IF self.script_type # "API" THEN Outcome("DoesNotExistError", <<>>, <<>>)
    ELSE LET r == safe_exec(self.script, <<>>, <<>>)
         IN  IF r.error # "None" THEN Outcome(r.error, <<>>, <<r.call>>)
             ELSE Outcome("None", <<r.flags>>, <<r.call>>)

\* execute_method with the guest check ahead of the type check.
execute_method_guest_check_first(self, user) ==
    IF user = "Guest" /\ ~Bool(self.allow_guest)
    THEN Outcome("PermissionError", <<>>, <<>>)
    ELSE IF self.script_type # "API"
    THEN Outcome("DoesNotExistError", <<>>, <<>>)
    ELSE LET r == safe_exec(self.script, <<>>, <<>>)
         IN  IF r.error # "None" THEN Outcome(r.error, <<>>, <<r.call>>)
             ELSE Outcome("None", <<r.flags>>, <<r.call>>)

\* ServerScript.execute_method
execute_method(self, user) ==
    IF self.script_type # "API" THEN Outcome("DoesNotExistError", <<>>, <<>>)
    ELSE IF user = "Guest" /\ ~Bool(self.allow_guest)
    THEN Outcome("PermissionError", <<>>, <<>>)
    ELSE LET r == safe_exec(self.script, <<>>, <<>>)
         IN  IF r.error # "None" THEN Outcome(r.error, <<>>, <<r.call>>)
             ELSE Outcome("None", <<r.flags>>, <<r.call>>)

\* execute_doc that catches what the script raises.
execute_doc_swallows_error(self, doc) ==
    LET r == safe_exec(self.script, <<>>, <<[ x \in {"doc"} |-> doc ]>>)
    IN  Outcome("None", <<>>, <<r.call>>)

\* execute_doc that hands the script the session user as well.
execute_doc_with_user(self, doc) ==
    LET r == safe_exec(self.script, <<>>,
                       <<[ x \in {"doc", "user"} |-> doc ]>>)
    IN  Outcome(r.error, <<>>, <<r.call>>)

\* ServerScript.execute_doc
execute_doc(self, doc) ==
    LET r == safe_exec(self.script, <<>>, <<[ x \in {"doc"} |-> doc ]>>)
    IN  Outcome(r.error, <<>>, <<r.call>>)

\* ServerScript.execute_scheduled_method
execute_scheduled_method(self) ==
    IF self.script_type # "Scheduler Event"
    THEN Outcome("DoesNotExistError", <<>>, <<>>)
    ELSE LET r == safe_exec(self.script, <<>>, <<>>)
         IN  Outcome(r.error, <<>>, <<r.call>>)

\* get_permission_query_conditions that returns conditions whatever it holds.
get_permission_query_conditions_unguarded(self, user) ==
    LET locals == [ x \in {"user", "conditions"} |->
                      IF x = "user" THEN user ELSE "" ]
        r == safe_exec(self.script, <<>>, <<locals>>)
    IN  IF r.error # "None" THEN Outcome(r.error, <<>>, <<r.call>>)
        ELSE Outcome("None", <<r.locals["conditions"]>>, <<r.call>>)

\* get_permission_query_conditions that tests conditions against None only.
get_permission_query_conditions_unless_none(self, user) ==
    LET locals == [ x \in {"user", "conditions"} |->
                      IF x = "user" THEN user ELSE "" ]
        r == safe_exec(self.script, <<>>, <<locals>>)
    IN  IF r.error # "None" THEN Outcome(r.error, <<>>, <<r.call>>)
        ELSE IF r.locals["conditions"] # PyNone
        THEN Outcome("None", <<r.locals["conditions"]>>, <<r.call>>)
        ELSE Outcome("None", <<>>, <<r.call>>)

\* ServerScript.get_permission_query_conditions
get_permission_query_conditions(self, user) ==
    LET locals == [ x \in {"user", "conditions"} |->
                      IF x = "user" THEN user ELSE "" ]
        r == safe_exec(self.script, <<>>, <<locals>>)
    IN  IF r.error # "None" THEN Outcome(r.error, <<>>, <<r.call>>)
        ELSE IF Truthy(r.locals["conditions"])
        THEN Outcome("None", <<r.locals["conditions"]>>, <<r.call>>)
        ELSE Outcome("None", <<>>, <<r.call>>)

\* Documents handed to execute_doc.
EventDocs == { "ToDo-0001" }

\* A request that runs a stored script through one of the entry points.
Execute(op, user, name, arg, o) ==
    /\ nreq < MaxRequests
    /\ UNCHANGED running
    /\ nreq' = nreq + 1
    /\ request' = Request(op, user, name, arg, Raise(Ctx(jobs), o.error),
                          o.ret, o.exec)
    /\ UNCHANGED <<scripts, jobs, server_script_map>>

ExecuteMethod(user, name) ==
    /\ name \in DOMAIN scripts
    /\ Execute("execute_method", user, name, "",
               execute_method(scripts[name], user))

ExecuteDoc(user, name, doc) ==
    /\ name \in DOMAIN scripts
    /\ Execute("execute_doc", user, name, doc, execute_doc(scripts[name], doc))

ExecuteScheduledMethod(user, name) ==
    /\ name \in DOMAIN scripts
    /\ Execute("execute_scheduled_method", user, name, "",
               execute_scheduled_method(scripts[name]))

GetPermissionQueryConditions(user, name) ==
    /\ name \in DOMAIN scripts
    /\ Execute("get_permission_query_conditions", user, name, user,
               get_permission_query_conditions(scripts[name], user))

-----------------------------------------------------------------------------
(* Two saves of one Scheduler Event script, one document store call a step *)

\* The processes (requests) saving at the same time, and the script they save.
Procs == {1, 2}
ConcurrentName == <<"a", "-", "b">>

\* A save in progress: where it is, the document being saved and the stored
\* one it loaded, the job names a get_all returned and are still to be worked
\* on, what get_value returned, whether it inserted a job, whether the other
\* save was under way when it began, and the exception that ended it.
Idle ==
    [ pc |-> "idle", doc |-> <<>>, before |-> <<>>, todo |-> {},
      found |-> <<>>, inserted |-> FALSE, overlapped |-> FALSE,
      error |-> "None" ]

Finished(r) == r.pc \in {"done", "failed"}
Other(p) == CHOOSE q \in Procs : q # p

\* get_all returns the jobs ordered by name: the next one of a loop.
NextJob(todo) == CHOOSE k \in todo : \A j \in todo : k <= j

\* sync_scheduled_jobs goes on to read the jobs.
sync_needed(doc, before) ==
    /\ doc.script_type = "Scheduler Event"
    /\ has_value_changed(doc, before, "disabled")

\* clear_scheduled_events that looks at the disabled field.
clear_needed_on_disabled(doc, before) ==
    /\ doc.script_type = "Scheduler Event"
    /\ has_value_changed(doc, before, "disabled")

\* clear_scheduled_events goes on to read the jobs.
clear_needed(doc, before) ==
    /\ doc.script_type = "Scheduler Event"
    /\ has_value_changed(doc, before, "event_frequency")

\* sync_scheduler_events calls setup_scheduler_events.
setup_needed(doc) ==
    /\ ~Bool(doc.disabled)
    /\ doc.event_frequency # NotSet
    /\ doc.script_type = "Scheduler Event"

\* The store call a save makes next: after sync_scheduled_jobs, after the
\* checks that open validate, and after on_update's cache delete.
AfterSync(doc, before) ==
    IF clear_needed(doc, before) THEN "clear_get_all" ELSE "db_update"
AfterChecks(doc, before) ==
    IF sync_needed(doc, before) THEN "sync_get_all" ELSE AfterSync(doc, before)
AfterCacheDelete(doc) ==
    IF setup_needed(doc) THEN "get_value" ELSE "done"

Fail(r, exception) == [ r EXCEPT !.pc = "failed", !.error = exception ]

\* Document.save begins: the stored document is loaded, validate's role and
\* syntax checks pass.
BeginSave(p, doc) ==
    /\ running[p].pc = "idle"
    /\ ConcurrentName \in DOMAIN scripts
    /\ LET before == doc_before_save(ConcurrentName)
       IN  running' = [ running EXCEPT ![p] =
               [ Idle EXCEPT !.pc = AfterChecks(doc, before),
                             !.doc = <<doc>>,
                             !.before = before,
                             !.overlapped =
                                 running[Other(p)].pc \notin
                                     {"idle", "done", "failed"} ] ]
    /\ UNCHANGED <<scripts, jobs, server_script_map, request, nreq>>

\* sync_scheduled_jobs: self.scheduled_jobs (get_all).
SyncGetAll(p) ==
    LET r == running[p]
        todo == { k \in scheduled_jobs(ConcurrentName, jobs) :
                    Bool(jobs[k].stopped) # Bool(r.doc[1].disabled) }
    IN  /\ r.pc = "sync_get_all"
        /\ running' = [ running EXCEPT ![p] =
               [ r EXCEPT !.todo = todo,
                          !.pc = IF todo = {}
                                 THEN AfterSync(r.doc[1], r.before)
                                 ELSE "sync_save" ] ]
        /\ UNCHANGED <<scripts, jobs, server_script_map, request, nreq>>

\* sync_scheduled_jobs: get_doc of the next job, stopped set, job.save().
SyncJobSave(p) ==
    LET r == running[p]
        k == NextJob(r.todo)
        rest == r.todo \ {k}
    IN  /\ r.pc = "sync_save"
        /\ IF k \notin DOMAIN jobs
           THEN /\ running' = [ running EXCEPT ![p] = Fail(r, "DoesNotExistError") ]
                /\ UNCHANGED jobs
           ELSE /\ jobs' = [ jobs EXCEPT ![k].stopped = r.doc[1].disabled ]
                /\ running' = [ running EXCEPT ![p] =
                       [ r EXCEPT !.todo = rest,
                                  !.pc = IF rest = {}
                                         THEN AfterSync(r.doc[1], r.before)
                                         ELSE "sync_save" ] ]
        /\ UNCHANGED <<scripts, server_script_map, request, nreq>>

\* clear_scheduled_events: self.scheduled_jobs (get_all).
ClearGetAll(p) ==
    LET r == running[p]
        todo == scheduled_jobs(ConcurrentName, jobs)
    IN  /\ r.pc = "clear_get_all"
        /\ running' = [ running EXCEPT ![p] =
               [ r EXCEPT !.todo = todo,
                          !.pc = IF todo = {} THEN "db_update"
                                 ELSE "clear_delete" ] ]
        /\ UNCHANGED <<scripts, jobs, server_script_map, request, nreq>>

\* clear_scheduled_events: frappe.delete_doc of the next job (a job that is
\* gone already is passed over).
ClearDeleteDoc(p) ==
    LET r == running[p]
        k == NextJob(r.todo)
        rest == r.todo \ {k}
    IN  /\ r.pc = "clear_delete"
        /\ jobs' = DeleteDocs(jobs, {k})
        /\ running' = [ running EXCEPT ![p] =
               [ r EXCEPT !.todo = rest,
                          !.pc = IF rest = {} THEN "db_update"
                                 ELSE "clear_delete" ] ]
        /\ UNCHANGED <<scripts, server_script_map, request, nreq>>

\* Document.save writes the Server Script row.
DbUpdate(p) ==
    LET r == running[p]
    IN  /\ r.pc = "db_update"
        /\ scripts' = PutScript(ConcurrentName, r.doc[1])
        /\ running' = [ running EXCEPT ![p] = [ r EXCEPT !.pc = "cache_delete" ] ]
        /\ UNCHANGED <<jobs, server_script_map, request, nreq>>

\* on_update: frappe.cache().delete_value("server_script_map").
CacheDeleteValue(p) ==
    LET r == running[p]
    IN  /\ r.pc = "cache_delete"
        /\ server_script_map' = <<>>
        /\ running' = [ running EXCEPT ![p] =
               [ r EXCEPT !.pc = AfterCacheDelete(r.doc[1]) ] ]
        /\ UNCHANGED <<scripts, jobs, request, nreq>>

\* The method setup_scheduler_events derives for the save's document.
MethodOfSave(r) == scrub(ConcurrentName \o <<"-">> \o r.doc[1].event_frequency)

\* setup_scheduler_events: frappe.db.get_value by method.
SetupGetValue(p) ==
    LET r == running[p]
        found == { k \in DOMAIN jobs : jobs[k].method = MethodOfSave(r) }
    IN  /\ r.pc = "get_value"
        /\ IF found = {}
           THEN running' = [ running EXCEPT ![p] = [ r EXCEPT !.pc = "insert" ] ]
           ELSE \E k \in found :
                  running' = [ running EXCEPT ![p] =
                      [ r EXCEPT !.found = <<k>>, !.pc = "get_doc" ] ]
        /\ UNCHANGED <<scripts, jobs, server_script_map, request, nreq>>

\* setup_scheduler_events: the new Scheduled Job Type is inserted.
SetupInsert(p) ==
    LET r == running[p]
    IN  /\ r.pc = "insert"
        /\ jobs' = InsertDoc(jobs, [ method |-> MethodOfSave(r),
                                     frequency |-> r.doc[1].event_frequency,
                                     server_script |-> ConcurrentName,
                                     stopped |-> 0 ])
        /\ running' = [ running EXCEPT ![p] =
               [ r EXCEPT !.inserted = TRUE, !.pc = "done" ] ]
        /\ UNCHANGED <<scripts, server_script_map, request, nreq>>

\* setup_scheduler_events: frappe.get_doc of the job found, and the
\* comparison of its frequency.
SetupGetDoc(p) ==
    LET r == running[p]
        k == r.found[1]
    IN  /\ r.pc = "get_doc"
        /\ running' = [ running EXCEPT ![p] =
               IF k \notin DOMAIN jobs THEN Fail(r, "DoesNotExistError")
               ELSE IF jobs[k].frequency = r.doc[1].event_frequency
               THEN [ r EXCEPT !.pc = "done" ]
               ELSE [ r EXCEPT !.pc = "save" ] ]
        /\ UNCHANGED <<scripts, jobs, server_script_map, request, nreq>>

\* setup_scheduler_events: doc.save() with the new frequency.
SetupDocSave(p) ==
    LET r == running[p]
        k == r.found[1]
    IN  /\ r.pc = "save"
        /\ IF k \notin DOMAIN jobs
           THEN /\ running' = [ running EXCEPT ![p] = Fail(r, "DoesNotExistError") ]
                /\ UNCHANGED jobs
           ELSE /\ jobs' = [ jobs EXCEPT ![k].frequency = r.doc[1].event_frequency ]
                /\ running' = [ running EXCEPT ![p] = [ r EXCEPT !.pc = "done" ] ]
        /\ UNCHANGED <<scripts, server_script_map, request, nreq>>

-----------------------------------------------------------------------------
(* Specifications *)

\* The value get_server_script_map builds for the cache key: the enabled
\* Server Scripts, each under its script type.
server_script_map_of(S) ==
    [ n \in { m \in DOMAIN S : ~Bool(S[m].disabled) } |-> S[n].script_type ]

\* get_server_script_map: returns the cached map, building and caching it from
\* the Server Script table when the key holds no value.
GetServerScriptMap(user) ==
    /\ nreq < MaxRequests
    /\ UNCHANGED running
    /\ nreq' = nreq + 1
    /\ server_script_map' = IF server_script_map = <<>>
                            THEN <<server_script_map_of(scripts)>>
                            ELSE server_script_map
    /\ request' = Request("get_server_script_map", user, <<>>, "", Ctx(jobs),
                          server_script_map', <<>>)
    /\ UNCHANGED <<scripts, jobs>>


NoRequest == Request("none", "Administrator", <<>>, "", Ctx(<<>>), <<>>, <<>>)

\* An empty site.
Init ==
    /\ scripts = <<>>
    /\ jobs = <<>>
    /\ server_script_map = <<>>
    /\ running = [ p \in Procs |-> Idle ]
    /\ request = NoRequest
    /\ nreq = 0

\* Documents offered to a save.  allow_guest is read by execute_method alone;
\* saves leave it unchecked here and SpecDispatch varies it.
SaveInputs ==
    { d \in ScriptDocs : d.script \in SaveScripts /\ d.allow_guest = 0 }

\* Saves and deletes.
Next ==
    \/ \E user \in Users, name \in ScriptNames, doc \in SaveInputs :
          Save(user, name, doc)
    \/ \E user \in Users, name \in ScriptNames : Delete(user, name)

Spec == Init /\ [][Next]_vars

\* Frequencies a direct caller of setup_scheduler_events passes: the
\* cadences, and one spelled in lower case.
CallFrequencies == Frequencies \cup { <<"d", "a", "i", "l", "y">> }

\* Saves and deletes by the Administrator, and direct calls of
\* setup_scheduler_events.
NextWhitelisted ==
    \/ \E name \in ScriptNames, doc \in SaveInputs :
          Save("Administrator", name, doc)
    \/ \E name \in ScriptNames : Delete("Administrator", name)
    \/ \E user \in Users, name \in ScriptNames, frequency \in CallFrequencies :
          SetupSchedulerEvents(user, name, frequency)

SpecWhitelisted == Init /\ [][NextWhitelisted]_vars

\* The lifecycle together with the dispatch layer's cached script lookup.
NextCache ==
    \/ \E name \in ScriptNames, doc \in SaveInputs : Save("Administrator", name, doc)
    \/ \E name \in ScriptNames : Delete("Administrator", name)
    \/ GetServerScriptMap("Administrator")

SpecCache == Init /\ [][NextCache]_vars

\* The lifecycle with every field of the document varied by a save, allow_guest
\* included, over a short run.
MaxWideRequests == 3

WideInputs == { d \in ScriptDocs : d.script = "pass" }

NextWide ==
    \/ \E name \in ScriptNames, doc \in WideInputs :
          nreq < MaxWideRequests /\ Save("Administrator", name, doc)
    \/ \E name \in ScriptNames :
          nreq < MaxWideRequests /\ Delete("Administrator", name)

SpecWide == Init /\ [][NextWide]_vars

\* Scheduler Event documents the concurrent saves write.
ConcurrentDocs ==
    { d \in ScriptDocs : /\ d.script_type = "Scheduler Event"
                         /\ d.script = "pass"
                         /\ d.allow_guest = 0 }

\* Job tables of a site on which the script was saved once, and on which
\* setup_scheduler_events may have been called since with the script's
\* frequency, in either letter case.
JobsAfterSave(d) ==
    LET saved == { u.jobs : u \in on_update(ConcurrentName, d, Ctx(<<>>)) }
        same == { f \in CallFrequencies : scrub(f) = scrub(d.event_frequency) }
        called == UNION { { v.jobs : v \in setup_scheduler_events(
                                               ConcurrentName, f, Ctx(J)) }
                          : J \in saved, f \in same }
    IN  saved \cup called

\* The script is stored with at most one job; both saves are about to begin.
InitConcurrent ==
    /\ \E d \in ConcurrentDocs :
          /\ scripts = [ n \in {ConcurrentName} |-> d ]
          /\ jobs \in { J \in JobsAfterSave(d) : Cardinality(DOMAIN J) <= 1 }
    /\ server_script_map = <<>>
    /\ request = NoRequest
    /\ nreq = 0
    /\ running = [ p \in Procs |-> Idle ]

NextConcurrent ==
    \E p \in Procs :
        \/ \E doc \in ConcurrentDocs : BeginSave(p, doc)
        \/ SyncGetAll(p)
        \/ SyncJobSave(p)
        \/ ClearGetAll(p)
        \/ ClearDeleteDoc(p)
        \/ DbUpdate(p)
        \/ CacheDeleteValue(p)
        \/ SetupGetValue(p)
        \/ SetupInsert(p)
        \/ SetupGetDoc(p)
        \/ SetupDocSave(p)

SpecConcurrent == InitConcurrent /\ [][NextConcurrent]_vars

\* A site that holds one saved script, of any type and with any body that
\* parses.
InitDispatch ==
    /\ \E name \in ScriptNames :
       \E doc \in { d \in ScriptDocs : Parses(d.script) } :
          scripts = [ n \in {name} |-> doc ]
    /\ jobs = <<>>
    /\ server_script_map = <<>>
    /\ running = [ p \in Procs |-> Idle ]
    /\ request = NoRequest
    /\ nreq = 0

\* The four execution entry points.
NextDispatch ==
    \/ \E user \in Users, name \in ScriptNames : ExecuteMethod(user, name)
    \/ \E user \in Users, name \in ScriptNames, doc \in EventDocs :
          ExecuteDoc(user, name, doc)
    \/ \E user \in Users, name \in ScriptNames :
          ExecuteScheduledMethod(user, name)
    \/ \E user \in Users, name \in ScriptNames :
          GetPermissionQueryConditions(user, name)

SpecDispatch == InitDispatch /\ [][NextDispatch]_vars

-----------------------------------------------------------------------------
(* Properties *)

\* The specification's names for the exceptions the code raises.
ValidationError == "SyntaxError"
NotFoundError == "DoesNotExistError"
PermissionError == "PermissionError"

\* The method setup_scheduler_events derives for (name, frequency).
MethodOf(name, frequency) == scrub(name \o <<"-">> \o frequency)

\* The step is a save of script name that went through.
SavedOk(name) ==
    /\ request'.op = "save"
    /\ request'.name = name
    /\ request'.error = "None"

\* How often entry x occurs in a log.
Count(log, x) == Cardinality({ i \in 1..Len(log) : log[i] = x })

\* C1: a save by a Script Manager of a script whose text does not parse fails
\* with the parser's error, writes no document, and makes no document store
\* call on the job table: the syntax check precedes sync_scheduled_jobs,
\* clear_scheduled_events and sync_scheduler_events, and none of them runs.
C1_UnparsableSaveTouchesNoJob ==
    [][ ( /\ request'.op = "save"
          /\ only_for(request'.user, "Script Manager")
          /\ ~Parses(request'.arg) )
        => ( /\ request'.error = ValidationError
             /\ request'.log = <<>>
             /\ request'.msgs = <<>>
             /\ jobs' = jobs
             /\ scripts' = scripts ) ]_vars

\* A failed save of an unparsable Scheduler Event script that owns a job.
C1_Witness ==
    /\ request.op = "save"
    /\ request.error = ValidationError
    /\ ~Parses(request.arg)
    /\ scheduled_jobs(request.name, jobs) # {}

\* C5: deleting a Scheduler Event script deletes every job whose
\* server_script is its name, however many there are.
C5_TrashDeletesEveryOwnedJob ==
    [][ \A name \in DOMAIN scripts :
          ( /\ request'.op = "delete"
            /\ request'.name = name
            /\ request'.error = "None"
            /\ scripts[name].script_type = "Scheduler Event" )
          => ( /\ name \notin DOMAIN scripts'
               /\ scheduled_jobs(name, jobs') = {}
               /\ Count(request'.log, "delete_doc")
                    = Cardinality(scheduled_jobs(name, jobs)) ) ]_vars

\* A delete that removed two jobs of the deleted script.
C5_Witness ==
    /\ request.op = "delete"
    /\ request.error = "None"
    /\ Count(request.log, "delete_doc") >= 2
    /\ scheduled_jobs(request.name, jobs) = {}

\* C9: every stored script has at most one job whose server_script is its
\* name.
C9_AtMostOneJobPerScript ==
    \A name \in DOMAIN scripts : Cardinality(scheduled_jobs(name, jobs)) <= 1

\* C10: every job owned by a stored Scheduler Event script has the script's
\* event_frequency as its frequency (every state is a committed one: a failed
\* save changes neither table).
C10_JobFrequencyIsEventFrequency ==
    \A name \in DOMAIN scripts :
        scripts[name].script_type = "Scheduler Event"
        => \A k \in scheduled_jobs(name, jobs) :
              jobs[k].frequency = scripts[name].event_frequency

\* The step saves the enabled Scheduler Event script name, bound at f1, as an
\* enabled Scheduler Event script with event_frequency f2.
FrequencyChange(name, f1, f2) ==
    /\ f1 # f2
    /\ scripts[name].script_type = "Scheduler Event"
    /\ ~Bool(scripts[name].disabled)
    /\ scripts[name].event_frequency = f1
    /\ \E k \in scheduled_jobs(name, jobs) :
          jobs[k].method = MethodOf(name, f1) /\ jobs[k].frequency = f1
    /\ SavedOk(name)
    /\ scripts'[name].script_type = "Scheduler Event"
    /\ ~Bool(scripts'[name].disabled)
    /\ scripts'[name].event_frequency = f2

\* In a log, every delete_doc comes before the get_value of
\* setup_scheduler_events, which is made.
DeletesBeforeRead(log) ==
    /\ \E j \in 1..Len(log) : log[j] = "get_value"
    /\ \A i, j \in 1..Len(log) :
          (log[i] = "delete_doc" /\ log[j] = "get_value") => i < j

\* C2: a save that changes the event_frequency of an enabled, bound Scheduler
\* Event script from f1 to f2 leaves no job with the method of (name, f1) and
\* exactly one job owned by the script, with the method of (name, f2) and
\* frequency f2; the old jobs are deleted before setup_scheduler_events looks
\* the method up.
C2_FrequencyChangeRebinds ==
    [][ \A name \in DOMAIN scripts : \A f1, f2 \in Frequencies :
          FrequencyChange(name, f1, f2)
          => ( /\ \A k \in DOMAIN jobs' : jobs'[k].method # MethodOf(name, f1)
               /\ Cardinality(scheduled_jobs(name, jobs')) = 1
               /\ \A k \in scheduled_jobs(name, jobs') :
                     /\ jobs'[k].method = MethodOf(name, f2)
                     /\ jobs'[k].frequency = f2
               /\ DeletesBeforeRead(request'.log) ) ]_vars

\* The step saves the Scheduler Event script name, which owns jobs, as a
\* Scheduler Event script with disabled changed and event_frequency kept.
DisabledToggle(name) ==
    /\ scripts[name].script_type = "Scheduler Event"
    /\ scheduled_jobs(name, jobs) # {}
    /\ SavedOk(name)
    /\ scripts'[name].script_type = "Scheduler Event"
    /\ scripts'[name].disabled # scripts[name].disabled
    /\ scripts'[name].event_frequency = scripts[name].event_frequency

\* C4: a save that changes disabled on a Scheduler Event script that owns
\* jobs, frequency unchanged, leaves stopped equal to the new disabled on every
\* job the script owns (so changing it back restores stopped), and neither
\* creates nor deletes a job.
C4_DisabledMirroredNoJobCreated ==
    [][ \A name \in DOMAIN scripts :
          DisabledToggle(name)
          => ( /\ \A k \in scheduled_jobs(name, jobs') :
                     jobs'[k].stopped = scripts'[name].disabled
               /\ DOMAIN jobs' = DOMAIN jobs
               /\ scheduled_jobs(name, jobs') = scheduled_jobs(name, jobs) ) ]_vars

\* setup_scheduler_events(name, frequency) run on job table J and then again
\* on the table it leaves: the second run changes nothing, writes nothing and
\* prints nothing.
SecondCallIsNoOp(name, frequency, J) ==
    \A c1 \in setup_scheduler_events(name, frequency, Ctx(J)) :
    \A c2 \in setup_scheduler_events(name, frequency, Ctx(c1.jobs)) :
        /\ c2.jobs = c1.jobs
        /\ c2.msgs = <<>>
        /\ Count(c2.log, "insert") = 0
        /\ Count(c2.log, "save") = 0

\* C3: setup_scheduler_events is idempotent.  From every job table reached,
\* and for every (script name, frequency), a second call with the same
\* arguments changes nothing, inserts and saves nothing and prints nothing;
\* the same holds of two calls made one after the other; and a call made
\* when no job has the derived method leaves exactly one job with it.
C3_SetupIsIdempotent ==
    /\ [](\A name \in ScriptNames : \A frequency \in CallFrequencies :
            SecondCallIsNoOp(name, frequency, jobs))
    /\ [][ request'.op = "setup"
           => LET method == MethodOf(request'.name, request'.arg)
              IN  /\ ( (\A k \in DOMAIN jobs : jobs[k].method # method)
                       => Cardinality({ k \in DOMAIN jobs' :
                                          jobs'[k].method = method }) = 1 )
                  /\ ( ( /\ request.op = "setup"
                         /\ request.name = request'.name
                         /\ request.arg = request'.arg )
                       => ( /\ jobs' = jobs
                            /\ request'.msgs = <<>>
                            /\ Count(request'.log, "insert") = 0
                            /\ Count(request'.log, "save") = 0 ) ) ]_vars

\* Two requests on an empty site, the second a call of setup_scheduler_events
\* that found its job with the frequency asked for: the job of the first call.
C3_Witness ==
    /\ nreq = 2
    /\ scripts = <<>>
    /\ request.op = "setup"
    /\ request.log = <<"get_value", "get_doc">>
    /\ \E k \in DOMAIN jobs :
          /\ DOMAIN jobs = {k}
          /\ jobs[k].method = MethodOf(request.name, request.arg)
          /\ jobs[k].server_script = request.name
          /\ jobs[k].frequency = request.arg

\* C6: execute_method on an API script called by Guest without allow_guest
\* raises PermissionError and never calls safe_exec; with allow_guest, or for
\* another user, it calls safe_exec exactly once, on the script.
C6_GuestNeedsAllowGuest ==
    [][ \A name \in DOMAIN scripts :
          ( /\ request'.op = "execute_method"
            /\ request'.name = name
            /\ scripts[name].script_type = "API" )
          => IF request'.user = "Guest" /\ ~Bool(scripts[name].allow_guest)
             THEN /\ request'.error = PermissionError
                  /\ request'.exec = <<>>
                  /\ request'.ret = <<>>
             ELSE /\ Len(request'.exec) = 1
                  /\ request'.exec[1].script = scripts[name].script
                  /\ request'.error # PermissionError ]_vars

\* Guest was refused an API script that does not allow guests.
C6_Witness ==
    /\ request.op = "execute_method"
    /\ request.user = "Guest"
    /\ request.error = PermissionError
    /\ request.exec = <<>>
    /\ scripts[request.name].script_type = "API"
    /\ ~Bool(scripts[request.name].allow_guest)

\* C7: execute_method on a script that is not of type API, and
\* execute_scheduled_method on one that is not a Scheduler Event, raise
\* DoesNotExistError without calling safe_exec; for Guest too, whatever
\* allow_guest is, since the type is checked first.
C7_WrongTypeIsNotFound ==
    [][ \A name \in DOMAIN scripts :
          /\ ( ( /\ request'.op = "execute_method"
                 /\ request'.name = name
                 /\ scripts[name].script_type # "API" )
               => request'.error = NotFoundError /\ request'.exec = <<>> )
          /\ ( ( /\ request'.op = "execute_scheduled_method"
                 /\ request'.name = name
                 /\ scripts[name].script_type # "Scheduler Event" )
               => request'.error = NotFoundError /\ request'.exec = <<>> ) ]_vars

\* Guest called execute_method on a script of another type that does not
\* allow guests, and got DoesNotExistError.
C7_Witness ==
    /\ request.op = "execute_method"
    /\ request.user = "Guest"
    /\ request.error = NotFoundError
    /\ request.exec = <<>>
    /\ scripts[request.name].script_type # "API"
    /\ ~Bool(scripts[request.name].allow_guest)

\* Script bodies that never assign conditions.
LeavesConditionsAlone == { "pass", "frappe.flags.out = 1" }

\* C8: get_permission_query_conditions(user) calls safe_exec once with locals
\* {user, conditions: ""} and no globals; it returns "1=1" when the script set
\* conditions to "1=1", returns None when the script never assigns
\* conditions, and never returns the empty string.
C8_PermissionQueryConditions ==
    [][ \A name \in DOMAIN scripts :
          ( /\ request'.op = "get_permission_query_conditions"
            /\ request'.name = name )
          => ( /\ Len(request'.exec) = 1
               /\ request'.exec[1] =
                     [ script |-> scripts[name].script,
                       _globals |-> <<>>,
                       _locals |-> <<[ x \in {"user", "conditions"} |->
                                         IF x = "user" THEN request'.arg
                                         ELSE "" ]>> ]
               /\ ( scripts[name].script = "conditions = '1=1'"
                    => request'.ret = <<"1=1">> /\ request'.error = "None" )
               /\ ( scripts[name].script \in LeavesConditionsAlone
                    => request'.ret = <<>> /\ request'.error = "None" )
               /\ request'.ret # <<"">> ) ]_vars

\* A permission query script that set conditions had "1=1" returned.
C8_Witness ==
    /\ request.op = "get_permission_query_conditions"
    /\ scripts[request.name].script = "conditions = '1=1'"
    /\ request.ret = <<"1=1">>

C12_CacheNeverOlderThanLastMutation ==
    server_script_map # <<>> => server_script_map[1] = server_script_map_of(scripts)

ExecutionError == "ExecutionError"

EntryPoints ==
    { "execute_method", "execute_doc", "execute_scheduled_method",
      "get_permission_query_conditions" }

\* The call of safe_exec the last request made raised.
ExecutorRaised ==
    /\ request.op \in EntryPoints
    /\ request.exec # <<>>
    /\ LET call == request.exec[1]
       IN  safe_exec(call.script, call._globals, call._locals).error # "None"

\* C13: whichever of the four entry points ran the script, when safe_exec
\* raises the request ends with the ExecutionError safe_exec raised and with no
\* return value; no entry point catches it.
C13_ExecutorFailureSurfaces ==
    ExecutorRaised => /\ request.error = ExecutionError
                      /\ request.ret = <<>>

\* execute_doc ran a raising script and the request ended with ExecutionError.
C13_Witness ==
    /\ ExecutorRaised
    /\ request.op = "execute_doc"
    /\ request.error = ExecutionError

OwnedByConcurrentName == scheduled_jobs(ConcurrentName, jobs)

\* C14: two saves of one Scheduler Event script that take their document
\* store calls in turn, with no lock, can leave the script with two jobs
\* (C14_Witness); and whenever it has two, the saves ran side by side and
\* each of them looked its method up, found no job and inserted one.
C14_TwoJobsByRacingInserts ==
    Cardinality(OwnedByConcurrentName) >= 2
      => /\ \E p \in Procs : running[p].overlapped
         /\ \A p \in Procs : /\ running[p].inserted
                             /\ running[p].found = <<>>

\* Both saves went through and the script owns two jobs.
C14_Witness ==
    /\ \A p \in Procs : running[p].pc = "done"
    /\ Cardinality(OwnedByConcurrentName) = 2

\* C15: after every save that went through of a Scheduler Event script that is
\* enabled and has an event_frequency f, there is a job with the method
\* scrub(name-f), the frequency f and the script's name as server_script.
C15_EnabledSaveLeavesItsJob ==
    [][ \A name \in ScriptNames :
          ( /\ SavedOk(name)
            /\ scripts'[name].script_type = "Scheduler Event"
            /\ ~Bool(scripts'[name].disabled)
            /\ scripts'[name].event_frequency # NotSet )
          => \E k \in DOMAIN jobs' :
               /\ jobs'[k].method = MethodOf(name, scripts'[name].event_frequency)
               /\ jobs'[k].frequency = scripts'[name].event_frequency
               /\ jobs'[k].server_script = name ]_vars

\* The step is a save or a delete of a script whose type, as saved or as
\* stored when deleted, is not Scheduler Event.
NonSchedulerMutation ==
    \/ /\ request'.op = "save"
       /\ request'.name \in DOMAIN scripts'
       /\ request'.error = "None"
       /\ scripts'[request'.name].script_type # "Scheduler Event"
    \/ /\ request'.op = "delete"
       /\ scripts[request'.name].script_type # "Scheduler Event"

\* C16: a save or a delete of a script whose script_type is then not Scheduler
\* Event makes no document store call on the job table and leaves it as it
\* was, whatever event_frequency, disabled and allow_guest are and whether or
\* not the save changes them.
C16_NonSchedulerLeavesJobsAlone ==
    [][ NonSchedulerMutation => /\ jobs' = jobs
                                /\ request'.log = <<>> ]_vars

\* A script that owns a job was saved as an API script, with event_frequency,
\* disabled and allow_guest all changed by the save.
C16_Witness ==
    /\ request.op = "save"
    /\ request.error = "None"
    /\ request.name \in DOMAIN scripts
    /\ scripts[request.name].script_type = "API"
    /\ scripts[request.name].allow_guest = 1
    /\ scripts[request.name].disabled = 1
    /\ scripts[request.name].event_frequency = Weekly
    /\ \E k \in scheduled_jobs(request.name, jobs) :
          /\ jobs[k].frequency = Daily
          /\ jobs[k].stopped = 0

\* The document qualifies for a job: enabled, event_frequency set, Scheduler
\* Event.
Schedulable(doc) ==
    /\ ~Bool(doc.disabled)
    /\ doc.event_frequency # NotSet
    /\ doc.script_type = "Scheduler Event"

\* The step inserted a job, or left a job with another frequency than it had.
CreatesOrRetimesJob ==
    \/ Count(request'.log, "insert") > 0
    \/ \E k \in DOMAIN jobs' :
          \/ k \notin DOMAIN jobs
          \/ jobs'[k].frequency # jobs[k].frequency

\* A Scheduler Event script that is stored disabled and owns no job.
UnboundDisabled(name) ==
    /\ name \in DOMAIN scripts
    /\ scripts[name].script_type = "Scheduler Event"
    /\ Bool(scripts[name].disabled)
    /\ scheduled_jobs(name, jobs) = {}

\* C17: a save inserts a job or changes a job's frequency only if the document
\* saved is enabled, has an event_frequency and is a Scheduler Event; so a save
\* of a disabled script, or of one without event_frequency, creates none, a
\* Scheduler Event script created disabled owns no job, and a disabled script
\* without a job gets one only by a save of it with disabled off.
C17_OnlySchedulableSaveBinds ==
    [][ /\ ( request'.op = "save" /\ CreatesOrRetimesJob )
            => /\ request'.error = "None"
               /\ Schedulable(scripts'[request'.name])
        /\ \A name \in ScriptNames :
             /\ ( /\ SavedOk(name)
                  /\ name \notin DOMAIN scripts
                  /\ scripts'[name].script_type = "Scheduler Event"
                  /\ Bool(scripts'[name].disabled) )
                => scheduled_jobs(name, jobs') = {}
             /\ ( /\ UnboundDisabled(name)
                  /\ scheduled_jobs(name, jobs') # {} )
                => /\ SavedOk(name)
                   /\ ~Bool(scripts'[name].disabled) ]_vars

\* A save of a disabled Scheduler Event script with an event_frequency read
\* the script's jobs and created none: the script owns no job, while another
\* script has one.
C17_Witness ==
    /\ request.op = "save"
    /\ request.error = "None"
    /\ request.name \in DOMAIN scripts
    /\ UnboundDisabled(request.name)
    /\ scripts[request.name].event_frequency = Weekly
    /\ request.log = <<"get_all">>
    /\ jobs # <<>>

\* The _locals each entry point is to hand to safe_exec for the last request:
\* <<>> for none, else <<the dict>>.
LocalsFor(op) ==
    CASE op = "execute_doc" -> <<[ x \in {"doc"} |-> request.arg ]>>
      [] op = "get_permission_query_conditions" ->
           <<[ x \in {"user", "conditions"} |->
                 IF x = "user" THEN request.user ELSE "" ]>>
      [] OTHER -> <<>>

\* C18: an entry point calls safe_exec at most once, never with globals, and
\* with exactly these locals: none from execute_method and
\* execute_scheduled_method, the document alone from execute_doc, the user and
\* an empty conditions from get_permission_query_conditions.
C18_DispatchPassesOnlyItsLocals ==
    request.op \in EntryPoints
      => /\ Len(request.exec) <= 1
         /\ \A i \in 1..Len(request.exec) :
              /\ request.exec[i]._globals = <<>>
              /\ request.exec[i]._locals = LocalsFor(request.op)
              /\ request.exec[i].script = scripts[request.name].script

\* execute_doc ran a script with the event's document as its only local.
C18_Witness ==
    /\ request.op = "execute_doc"
    /\ request.error = "None"
    /\ Len(request.exec) = 1
    /\ DOMAIN request.exec[1]._locals[1] = {"doc"}
    /\ request.exec[1]._locals[1]["doc"] \in EventDocs

\* Script bodies that assign conditions a falsy value.
AssignsFalsy == { "conditions = ''", "conditions = None" }

\* What the script of the last request left in the local conditions.
ConditionsAfter ==
    LET call == request.exec[1]
    IN  safe_exec(call.script, call._globals, call._locals).locals["conditions"]

\* C19: get_permission_query_conditions returns None whenever conditions is
\* falsy once the script has run; a script that assigns the empty string or
\* None gets exactly what a script that never assigns conditions gets: no
\* value and no exception.
C19_FalsyConditionsMeanNoRestriction ==
    ( /\ request.op = "get_permission_query_conditions"
      /\ request.error = "None" )
    => /\ Len(request.exec) = 1
       /\ ~Truthy(ConditionsAfter) => request.ret = <<>>
       /\ scripts[request.name].script \in AssignsFalsy \cup LeavesConditionsAlone
            => /\ ~Truthy(ConditionsAfter)
               /\ request.ret = <<>>

\* A permission query script that set conditions to the empty string had None
\* returned.
C19_Witness ==
    /\ request.op = "get_permission_query_conditions"
    /\ request.error = "None"
    /\ scripts[request.name].script = "conditions = ''"
    /\ ConditionsAfter = ""
    /\ request.ret = <<>>

\* C20: whatever saves and deletes have been made, every job owned by a stored
\* Scheduler Event script is stopped exactly if the script is disabled.
C20_StoppedMirrorsDisabled ==
    \A name \in DOMAIN scripts :
        scripts[name].script_type = "Scheduler Event"
          => \A k \in scheduled_jobs(name, jobs) :
                 Bool(jobs[k].stopped) = Bool(scripts[name].disabled)

\* C21: whatever saves, deletes and direct calls of setup_scheduler_events have
\* been made, the server_script of every job names a stored Server Script
\* whose script_type is Scheduler Event.
C21_NoDanglingJob ==
    \A k \in DOMAIN jobs :
        /\ jobs[k].server_script \in DOMAIN scripts
        /\ scripts[jobs[k].server_script].script_type = "Scheduler Event"

\* The jobs of script name, by job name.
JobsOf(name, J) == [ k \in scheduled_jobs(name, J) |-> J[k] ]

\* C22: a save or a delete of a script A, and a call
\* setup_scheduler_events(A, f), leave the jobs whose server_script is another
\* script B as they were: none created, changed or deleted, also when A and B
\* derive the same method.
C22_OtherScriptsJobsUntouched ==
    [][ \A A \in ScriptNames, B \in ScriptNames :
          ( /\ request'.op \in {"save", "delete", "setup"}
            /\ request'.name = A
            /\ B # A )
          => JobsOf(B, jobs') = JobsOf(B, jobs) ]_vars

====
